---- MODULE Spec2Model ----
(***************************************************************************)
(* Vector stores of the OneNote knowledge base (LanceDBStore and           *)
(* HNSWLibStore, src/src/vectorstore/lancedb-store.ts).                    *)
(*                                                                         *)
(* A behaviour follows the store handles of one process working on one     *)
(* persist directory.  `kind` selects the store class under study; the     *)
(* directory content survives the construction of a new handle.            *)
(***************************************************************************)
EXTENDS Integers, Sequences, FiniteSets, TLC

VARIABLES
  kind,         \* "lance" (LanceDBStore) or "hnsw" (HNSWLibStore)
  disk,         \* persistDirectory: collection name -> NoTable | Corrupt | rows
  tableName,    \* handle -> this.tableName / this.collectionName
  db,           \* handle -> this.db !== null                (LanceDBStore)
  table,        \* handle -> this.table !== null             (LanceDBStore)
  vectorstore,  \* handle -> Null or the in-memory index     (HNSWLibStore)
  call,         \* handle -> the addDocuments call in flight, or IdleCall
  life,         \* handle -> what happened last to the handle's collection
  deleted,      \* handle -> deleteCollection returned, no addDocuments since
  last,         \* the step just taken and what its caller observed
  ids,          \* the clock and the row ids made by generateId
  retriever,    \* handle -> the retriever asRetriever returned last
  qa,           \* the QAChain of the knowledge base
  loader        \* the OneNoteLoader and its load() in progress

\* what the store operations alone leave as it is
layerVars == <<ids, retriever, qa, loader>>

vars == <<kind, disk, tableName, db, table, vectorstore, call, life, deleted,
          last, ids, retriever, qa, loader>>

----------------------------------------------------------------------------
(* Bounds *)

MaxDocs == 3        \* documents handed to one addDocuments call
MaxBatch == 2       \* batchSize argument
MaxRows == 4        \* rows of one persisted collection
MaxInitRows == 1    \* rows found on disk when the process starts
MaxK == 1           \* explicit k argument of search
MaxRowsTwo == 2     \* rows of the collection two handles work on
MaxClock == 1       \* milliseconds Date.now() runs through
MaxRnd == 1         \* values of the random suffix of an id
MaxPages == 2       \* pages of one OneNote section
MaxChunk == 2       \* chunkSize argument of the loader

----------------------------------------------------------------------------
(* Values *)

\* One entry of the persist directory: no collection, an unreadable one, or
\* the persisted rows.
NoTable == [state |-> "absent", rows |-> <<>>]
Corrupt == [state |-> "corrupt", rows |-> <<>>]
Present(rows) == [state |-> "present", rows |-> rows]

\* this.vectorstore of HNSWLibStore: null, or the in-memory index
Null == [loaded |-> FALSE, docs |-> <<>>]
Loaded(rows) == [loaded |-> TRUE, docs |-> rows]

\* settings.app.retrievalK, scaled down from its default of 4
RetrievalK == 2

\* k left out by the caller (undefined)
Omitted == -1

Texts == {"a", "b"}

\* langchain Document: pageContent and metadata
DocPool ==
  { [pageContent |-> "a", metadata |-> "p1"],
    [pageContent |-> "b", metadata |-> "p2"] }

DocLists == UNION { [1..n -> DocPool] : n \in 0..MaxDocs }

\* The embedding provider: one fixed-dimension vector per text.
EmbedVec(t) == IF t = "a" THEN 1 ELSE 4

\* VectorRecord built in addDocuments, lines 102-107 (the id is left out)
Record(doc) ==
  [text |-> doc.pageContent, vector |-> EmbedVec(doc.pageContent),
   metadata |-> doc.metadata]

RECURSIVE Records(_)
Records(docs) ==
  IF docs = <<>> THEN <<>>
  ELSE <<Record(Head(docs))>> \o Records(Tail(docs))

\* batch.map((doc) => doc.pageContent)
RECURSIVE PageContents(_)
PageContents(docs) ==
  IF docs = <<>> THEN <<>>
  ELSE <<Head(docs).pageContent>> \o PageContents(Tail(docs))

Min(a, b) == IF a < b THEN a ELSE b

\* Slice with the end index taken as a length: documents.slice(i, batchSize)
SliceEndAsLength(docs, i, batchSize) ==
  SubSeq(docs, i + 1, Min(batchSize, Len(docs)))

\* documents.slice(i, i + batchSize), i counted from 0
Slice(docs, i, batchSize) ==
  SubSeq(docs, i + 1, Min(i + batchSize, Len(docs)))

\* k || settings.app.retrievalK
NumResults(k) == IF k = Omitted \/ k = 0 THEN RetrievalK ELSE k

Dist(v, q) == (v - q) * (v - q)

\* index of the first row of rows nearest to the query vector
NearestIndex(rows, qv) ==
  CHOOSE i \in 1..Len(rows) :
    /\ \A j \in 1..Len(rows) : Dist(rows[i].vector, qv) <= Dist(rows[j].vector, qv)
    /\ \A j \in 1..(i - 1) : Dist(rows[j].vector, qv) > Dist(rows[i].vector, qv)

RemoveAt(rows, i) == SubSeq(rows, 1, i - 1) \o SubSeq(rows, i + 1, Len(rows))

\* vectorSearch(queryVector).limit(n).toArray(): the n nearest rows, nearest
\* first
RECURSIVE VectorSearch(_, _, _)
VectorSearch(rows, qv, n) ==
  IF n <= 0 \/ rows = <<>> THEN <<>>
  ELSE LET i == NearestIndex(rows, qv)
       IN  <<rows[i]>> \o VectorSearch(RemoveAt(rows, i), qv, n - 1)

IdleCall ==
  [pc |-> "idle", docs |-> <<>>, batchSize |-> 0, i |-> 0, records |-> <<>>,
   embedCalls |-> <<>>, progress |-> <<>>, embedError |-> FALSE,
   startDisk |-> NoTable, startIndex |-> Null]

\* What the caller of the step just taken saw.
NoOp ==
  [op |-> "none", s |-> 0, result |-> "ok", docs |-> <<>>, batchSize |-> 0,
   embedCalls |-> <<>>, progress |-> <<>>, embedError |-> FALSE,
   startDisk |-> NoTable, startIndex |-> Null, embedded |-> FALSE, k |-> 0, rows |-> <<>>,
   before |-> "new", count |-> 0, llmType |-> "none", apiKey |-> FALSE,
   wasReady |-> FALSE, llmCalls |-> 0, prompt |-> "none", excerpts |-> <<>>,
   returnSources |-> FALSE, hasSources |-> FALSE, sources |-> <<>>]

----------------------------------------------------------------------------
(* Reads *)

\* tableNames.includes(this.tableName), line 59
TableExists(s) == disk[tableName[s]].state = "present"

\* HNSWLibStore.storeExists
storeExists(s) == disk[tableName[s]].state # "absent"

\* LanceDBStore.isReady / HNSWLibStore.isReady
isReady(s) ==
  IF kind = "lance" THEN table[s] ELSE vectorstore[s].loaded

\* LanceDBStore.getCollectionStats: countRows through the table handle throws
\* when the table is gone from the directory.
LanceStats(s) ==
  IF table[s]
  THEN IF TableExists(s)
       THEN [result |-> "ok", documentCount |-> Len(disk[tableName[s]].rows)]
       ELSE [result |-> "error", documentCount |-> 0]
  ELSE [result |-> "ok", documentCount |-> 0]

\* HnswStats counting the documents of the index in memory
HnswStatsCounts(s) ==
  [result |-> "ok",
   documentCount |-> IF vectorstore[s].loaded THEN Len(vectorstore[s].docs)
                     ELSE 0]

\* HNSWLibStore.getCollectionStats
HnswStats(s) ==
  [result |-> "ok",
   documentCount |-> IF vectorstore[s].loaded THEN -1 ELSE 0]

getCollectionStats(s) == IF kind = "lance" THEN LanceStats(s) ELSE HnswStats(s)

\* LanceSearchOutcome answering an empty result when no table is open
LanceSearchOutcomeEmpty(s, q, k, embedOk) ==
  IF ~table[s]
  THEN [result |-> "ok", embedded |-> FALSE, rows |-> <<>>]
  ELSE IF ~embedOk \/ ~TableExists(s)
       THEN [result |-> "error", embedded |-> TRUE, rows |-> <<>>]
       ELSE [result |-> "ok", embedded |-> TRUE,
             rows |-> VectorSearch(disk[tableName[s]].rows, EmbedVec(q),
                                   NumResults(k))]

\* LanceDBStore.search / searchWithScores for query text q and argument k;
\* embedOk tells whether the provider answers embedQuery.
LanceSearchOutcome(s, q, k, embedOk) ==
  IF ~table[s]
  THEN [result |-> "error", embedded |-> FALSE, rows |-> <<>>]
  ELSE IF ~embedOk \/ ~TableExists(s)
       THEN [result |-> "error", embedded |-> TRUE, rows |-> <<>>]
       ELSE [result |-> "ok", embedded |-> TRUE,
             rows |-> VectorSearch(disk[tableName[s]].rows, EmbedVec(q),
                                   NumResults(k))]

\* HNSWLibStore.search / searchWithScores
HnswSearchOutcome(s, q, k, embedOk) ==
  IF ~vectorstore[s].loaded
  THEN [result |-> "error", embedded |-> FALSE, rows |-> <<>>]
  ELSE IF ~embedOk
       THEN [result |-> "error", embedded |-> TRUE, rows |-> <<>>]
       ELSE [result |-> "ok", embedded |-> TRUE,
             rows |-> VectorSearch(vectorstore[s].docs, EmbedVec(q),
                                   NumResults(k))]

SearchOutcome(s, q, k, embedOk) ==
  IF kind = "lance" THEN LanceSearchOutcome(s, q, k, embedOk)
  ELSE HnswSearchOutcome(s, q, k, embedOk)

----------------------------------------------------------------------------
(* Initial states and construction *)

Names1 == {"onenote_collection"}
Handles1 == {1}

\* rows a former run of addDocuments can have left in the directory
InitRows == UNION { [1..n -> {Record(d) : d \in DocPool}] : n \in 1..MaxInitRows }

TypeOK ==
  /\ kind \in {"lance", "hnsw"}
  /\ \A n \in DOMAIN disk :
       /\ disk[n].state \in {"absent", "corrupt", "present"}
       /\ Len(disk[n].rows) <= MaxRows
  /\ \A s \in DOMAIN db :
       /\ db[s] \in BOOLEAN /\ table[s] \in BOOLEAN
       /\ vectorstore[s].loaded \in BOOLEAN
       /\ call[s].pc \in {"idle", "embed", "create", "write"}

\* ids of the rows a former run left: generateId at an earlier time
FormerIds(n) == [i \in 1..n |-> <<-1, i>>]

NoIds(handles, names) ==
  [now |-> 0, pending |-> [s \in handles |-> <<>>],
   stored |-> [n \in names |-> <<>>]]

\* no retriever was asked for yet
NoRetriever == [made |-> FALSE, k |-> 0, attached |-> FALSE, index |-> Null]

\* no QAChain was constructed yet (OneNoteKnowledgeBase.qaChain = null)
NoChain ==
  [made |-> FALSE, llm |-> "none", template |-> "none", chain |-> FALSE,
   prompt |-> "none"]

\* new LanceDBStore(...) / new HNSWLibStore(...) on a directory that a former
\* process may have filled
InitStore(handles, names) ==
  /\ kind \in {"lance", "hnsw"}
  /\ disk \in [names -> {NoTable} \cup {Present(r) : r \in InitRows}
                         \cup (IF kind = "hnsw" THEN {Corrupt} ELSE {})]
  /\ tableName \in [handles -> names]
  /\ db = [s \in handles |-> FALSE]
  /\ table = [s \in handles |-> FALSE]
  /\ vectorstore = [s \in handles |-> Null]
  /\ call = [s \in handles |-> IdleCall]
  /\ life = [s \in handles |-> "new"]
  /\ deleted = [s \in handles |-> FALSE]
  /\ last = NoOp

\* no OneNoteLoader was constructed yet
NoLoader ==
  [pc |-> "none", notebooks |-> <<>>, chunkSize |-> 0, chunkOverlap |-> 0,
   argSize |-> 0, argOverlap |-> 0,
   nbFilter |-> [given |-> FALSE, name |-> ""],
   secFilter |-> [given |-> FALSE, name |-> ""], split |-> FALSE,
   i |-> 0, j |-> 0, k |-> 0, listed |-> <<>>, yielded |-> <<>>,
   failed |-> <<>>, documents |-> <<>>, kb |-> FALSE, listError |-> "none"]

\* the store alone: ids, retrievers and the chain are not followed
InitWith(handles, names) ==
  /\ InitStore(handles, names)
  /\ ids = NoIds(handles, names)
  /\ retriever = [s \in handles |-> NoRetriever]
  /\ qa = NoChain
  /\ loader = NoLoader

Init == InitWith(Handles1, Names1)

Idle(s) == call[s].pc = "idle"

\* The process ends (whatever call is pending is lost) and a new one
\* constructs the store again: constructor, lines 34-47 / 277-290.
Construct(s) ==
  /\ db' = [db EXCEPT ![s] = FALSE]
  /\ table' = [table EXCEPT ![s] = FALSE]
  /\ vectorstore' = [vectorstore EXCEPT ![s] = Null]
  /\ call' = [call EXCEPT ![s] = IdleCall]
  /\ life' = [life EXCEPT ![s] = "new"]
  /\ deleted' = [deleted EXCEPT ![s] = FALSE]
  /\ last' = [NoOp EXCEPT !.op = "construct", !.s = s, !.before = life[s]]
  /\ UNCHANGED <<kind, disk, tableName>>

----------------------------------------------------------------------------
(* initialize *)

\* life after an initialize that found nothing to open
FoundNothing(l) == IF l \in {"opened", "created"} THEN l ELSE "initEmpty"

\* LanceConnect dropping the handle of a table that is already open
LanceConnectReopens(s) ==
  /\ db' = [db EXCEPT ![s] = TRUE]
  /\ table' = IF TableExists(s) THEN [table EXCEPT ![s] = ~table[s]] ELSE table
  /\ life' = [life EXCEPT ![s] =
                IF TableExists(s) THEN "opened" ELSE FoundNothing(life[s])]

\* LanceDBStore.initialize as it changes db, table of handle s
LanceConnect(s) ==
  /\ db' = [db EXCEPT ![s] = TRUE]
  /\ table' = IF TableExists(s) THEN [table EXCEPT ![s] = TRUE] ELSE table
  /\ life' = [life EXCEPT ![s] =
                IF TableExists(s) THEN "opened" ELSE FoundNothing(life[s])]

LanceInitialize(s) ==
  /\ kind = "lance" /\ Idle(s)
  /\ LanceConnect(s)
  /\ last' = [NoOp EXCEPT !.op = "initialize", !.s = s, !.before = life[s]]
  /\ UNCHANGED <<kind, disk, tableName, vectorstore, call, deleted>>

\* HNSWLib.load(storePath, embeddings): the index saved in the directory
HnswLoad(d) == Loaded(d.rows)

\* HnswInitialize letting the failure of HNSWLib.load reach the caller
HnswInitializeThrows(s) ==
  /\ kind = "hnsw" /\ Idle(s)
  /\ IF storeExists(s)
     THEN IF disk[tableName[s]].state = "present"
          THEN /\ vectorstore' = [vectorstore EXCEPT ![s] = HnswLoad(disk[tableName[s]])]
               /\ life' = [life EXCEPT ![s] = "opened"]
          ELSE /\ vectorstore' = vectorstore
               /\ life' = [life EXCEPT ![s] = "loadFailed"]
     ELSE /\ vectorstore' = vectorstore
          /\ life' = [life EXCEPT ![s] = FoundNothing(life[s])]
  /\ last' = [NoOp EXCEPT !.op = "initialize", !.s = s, !.before = life[s],
                          !.result = IF disk[tableName[s]].state = "corrupt"
                                     THEN "error" ELSE "ok"]
  /\ UNCHANGED <<kind, disk, tableName, db, table, call, deleted>>

HnswInitialize(s) ==
  /\ kind = "hnsw" /\ Idle(s)
  /\ IF storeExists(s)
     THEN IF disk[tableName[s]].state = "present"
          THEN /\ vectorstore' = [vectorstore EXCEPT ![s] = HnswLoad(disk[tableName[s]])]
               /\ life' = [life EXCEPT ![s] = "opened"]
          ELSE /\ vectorstore' = [vectorstore EXCEPT ![s] = Null]
               /\ life' = [life EXCEPT ![s] = "loadFailed"]
     ELSE /\ vectorstore' = vectorstore
          /\ life' = [life EXCEPT ![s] = FoundNothing(life[s])]
  /\ last' = [NoOp EXCEPT !.op = "initialize", !.s = s, !.before = life[s]]
  /\ UNCHANGED <<kind, disk, tableName, db, table, call, deleted>>

----------------------------------------------------------------------------
(* addDocuments *)

Step(s) == [NoOp EXCEPT !.op = "step", !.s = s]

\* what the caller of addDocuments gets when call c of handle s ends
Returned(s, c, res, before) ==
  [NoOp EXCEPT !.op = "addDocuments", !.s = s, !.result = res,
               !.docs = c.docs, !.batchSize = c.batchSize,
               !.embedCalls = c.embedCalls, !.progress = c.progress,
               !.embedError = c.embedError,
               !.startDisk = c.startDisk, !.startIndex = c.startIndex,
               !.before = before]

StartCall(s, docs, batchSize, pc) ==
  [IdleCall EXCEPT !.pc = pc, !.docs = docs, !.batchSize = batchSize,
                   !.startDisk = disk[tableName[s]],
                   !.startIndex = vectorstore[s]]

\* LanceAddDocuments connecting before it looks at documents.length
LanceAddDocumentsConnects(s, docs, batchSize) ==
  /\ kind = "lance" /\ Idle(s)
  /\ Len(disk[tableName[s]].rows) + Len(docs) <= MaxRows
  /\ IF ~db[s] THEN LanceConnect(s)
     ELSE UNCHANGED <<db, table, life>>
  /\ IF docs = <<>>
     THEN /\ last' = Returned(s, StartCall(s, docs, batchSize, "idle"), "ok", life[s])
          /\ UNCHANGED call
     ELSE /\ call' = [call EXCEPT ![s] = StartCall(s, docs, batchSize, "embed")]
          /\ last' = Step(s)
  /\ UNCHANGED <<kind, disk, tableName, vectorstore, deleted>>

\* LanceDBStore.addDocuments up to the loop, lines 78-90
LanceAddDocuments(s, docs, batchSize) ==
  /\ kind = "lance" /\ Idle(s)
  /\ Len(disk[tableName[s]].rows) + Len(docs) <= MaxRows
  /\ IF docs = <<>>
     THEN /\ last' = Returned(s, StartCall(s, docs, batchSize, "idle"), "ok", life[s])
          /\ UNCHANGED <<db, table, life, call>>
     ELSE /\ IF ~db[s] THEN LanceConnect(s)
             ELSE UNCHANGED <<db, table, life>>
          /\ call' = [call EXCEPT ![s] = StartCall(s, docs, batchSize, "embed")]
          /\ last' = Step(s)
  /\ UNCHANGED <<kind, disk, tableName, vectorstore, deleted>>

\* embeddings.embedDocuments(texts): one vector per text, in order
embedDocuments(texts) == [j \in 1..Len(texts) |-> EmbedVec(texts[j])]

\* BuildRecords taking the vectors from the end of the answer
BuildRecordsBackwards(batch, vectors) ==
  [j \in 1..Len(batch) |->
     [text |-> batch[j].pageContent, vector |-> vectors[Len(batch) - j + 1],
      metadata |-> batch[j].metadata]]

\* lines 101-108: record j of the batch gets vectors[j]
BuildRecords(batch, vectors) ==
  [j \in 1..Len(batch) |->
     [text |-> batch[j].pageContent, vector |-> vectors[j],
      metadata |-> batch[j].metadata]]

\* Embedded keeping only the records of the latest batch
EmbeddedResets(c) ==
  LET batch == Slice(c.docs, c.i, c.batchSize)
  IN  [c EXCEPT !.records = Records(batch),
                !.embedCalls = Append(c.embedCalls, PageContents(batch)),
                !.progress = Append(c.progress,
                                    Min(c.i + c.batchSize, Len(c.docs))),
                !.i = c.i + c.batchSize,
                !.pc = IF c.i + c.batchSize < Len(c.docs)
                       THEN "embed" ELSE "write"]

\* the call after one more batch was embedded, loop body lines 94-110
Embedded(c) ==
  LET batch == Slice(c.docs, c.i, c.batchSize)
  IN  [c EXCEPT !.records = c.records
                  \o BuildRecords(batch, embedDocuments(PageContents(batch))),
                !.embedCalls = Append(c.embedCalls, PageContents(batch)),
                !.progress = Append(c.progress,
                                    Min(c.i + c.batchSize, Len(c.docs))),
                !.i = c.i + c.batchSize,
                !.pc = IF c.i + c.batchSize < Len(c.docs)
                       THEN "embed" ELSE "write"]

\* the call when embedDocuments threw on the batch at c.i
EmbedFailed(c) ==
  [c EXCEPT !.embedCalls =
              Append(c.embedCalls, PageContents(Slice(c.docs, c.i, c.batchSize))),
            !.embedError = TRUE]

\* one turn of the loop of lines 93-111, the provider answering
LanceEmbedBatch(s) ==
  /\ kind = "lance" /\ call[s].pc = "embed"
  /\ call' = [call EXCEPT ![s] = Embedded(call[s])]
  /\ last' = Step(s)
  /\ UNCHANGED <<kind, disk, tableName, db, table, vectorstore, life, deleted>>

\* LanceEmbedFails writing the batches embedded so far before it rejects
LanceEmbedFailsFlushes(s) ==
  /\ kind = "lance" /\ call[s].pc = "embed"
  /\ call' = [call EXCEPT ![s] = IdleCall]
  /\ last' = Returned(s, EmbedFailed(call[s]), "error", life[s])
  /\ IF call[s].records = <<>>
     THEN UNCHANGED <<disk, table>>
     ELSE /\ disk' = [disk EXCEPT ![tableName[s]] =
                        Present(disk[tableName[s]].rows \o call[s].records)]
          /\ table' = [table EXCEPT ![s] = TRUE]
  /\ UNCHANGED <<kind, tableName, db, vectorstore, life, deleted>>

\* LanceEmbedFails with the provider's error caught and logged
LanceEmbedFailsSwallowed(s) ==
  /\ kind = "lance" /\ call[s].pc = "embed"
  /\ call' = [call EXCEPT ![s] = IdleCall]
  /\ last' = Returned(s, EmbedFailed(call[s]), "ok", life[s])
  /\ UNCHANGED <<kind, disk, tableName, db, table, vectorstore, life, deleted>>

\* embedDocuments of line 98 throws: addDocuments rejects
LanceEmbedFails(s) ==
  /\ kind = "lance" /\ call[s].pc = "embed"
  /\ call' = [call EXCEPT ![s] = IdleCall]
  /\ last' = Returned(s, EmbedFailed(call[s]), "error", life[s])
  /\ UNCHANGED <<kind, disk, tableName, db, table, vectorstore, life, deleted>>

\* lines 113-123: createTable when this.table is null (it fails when the
\* table is already there), table.add otherwise (it fails when the table is
\* gone)
LanceWrite(s) ==
  LET c == call[s]
      d == disk[tableName[s]]
      fails == IF table[s] THEN d.state # "present" ELSE d.state = "present"
  IN
  /\ kind = "lance" /\ c.pc = "write"
  /\ IF fails
     THEN /\ last' = Returned(s, c, "error", life[s])
          /\ UNCHANGED <<disk, table, life, deleted>>
     ELSE /\ disk' = [disk EXCEPT ![tableName[s]] =
                        IF table[s] THEN Present(d.rows \o c.records)
                        ELSE Present(c.records)]
          /\ table' = [table EXCEPT ![s] = TRUE]
          /\ life' = [life EXCEPT ![s] = "created"]
          /\ deleted' = [deleted EXCEPT ![s] = FALSE]
          /\ last' = Returned(s, c, "ok", life[s])
  /\ call' = [call EXCEPT ![s] = IdleCall]
  /\ UNCHANGED <<kind, tableName, db, vectorstore>>

\* HNSWLibStore.addDocuments up to the branch of line 349
HnswAddDocuments(s, docs, batchSize) ==
  /\ kind = "hnsw" /\ Idle(s)
  /\ Len(vectorstore[s].docs) + Len(docs) <= MaxRows
  /\ IF docs = <<>>
     THEN /\ last' = Returned(s, StartCall(s, docs, batchSize, "idle"), "ok", life[s])
          /\ call' = call
     ELSE /\ call' = [call EXCEPT ![s] =
                        StartCall(s, docs, batchSize,
                                  IF vectorstore[s].loaded THEN "embed" ELSE "create")]
          /\ last' = Step(s)
  /\ UNCHANGED <<kind, disk, tableName, db, table, vectorstore, life, deleted>>

\* the call after HNSWLib.fromDocuments(documents, embeddings) of line 352:
\* one provider call for all the documents
Created(c) ==
  [c EXCEPT !.records = Records(c.docs),
            !.embedCalls = <<PageContents(c.docs)>>,
            !.i = Len(c.docs),
            !.pc = "write"]

HnswFromDocuments(s) ==
  /\ kind = "hnsw" /\ call[s].pc = "create"
  /\ vectorstore' = [vectorstore EXCEPT ![s] = Loaded(Created(call[s]).records)]
  /\ call' = [call EXCEPT ![s] = Created(call[s])]
  /\ life' = [life EXCEPT ![s] = "created"]
  /\ last' = Step(s)
  /\ UNCHANGED <<kind, disk, tableName, db, table, deleted>>

HnswFromDocumentsFails(s) ==
  /\ kind = "hnsw" /\ call[s].pc = "create"
  /\ call' = [call EXCEPT ![s] = IdleCall]
  /\ last' = Returned(s, [call[s] EXCEPT
                             !.embedCalls = <<PageContents(call[s].docs)>>,
                             !.embedError = TRUE],
                      "error", life[s])
  /\ UNCHANGED <<kind, disk, tableName, db, table, vectorstore, life, deleted>>

\* HnswAddBatch saving the index after the batch
HnswAddBatchSaves(s) ==
  /\ kind = "hnsw" /\ call[s].pc = "embed"
  /\ vectorstore' = [vectorstore EXCEPT ![s] =
       Loaded(vectorstore[s].docs
              \o Records(Slice(call[s].docs, call[s].i, call[s].batchSize)))]
  /\ disk' = [disk EXCEPT ![tableName[s]] = Present(vectorstore'[s].docs)]
  /\ call' = [call EXCEPT ![s] = Embedded(call[s])]
  /\ last' = Step(s)
  /\ UNCHANGED <<kind, tableName, db, table, life, deleted>>

\* one turn of the loop of lines 355-359: vectorstore.addDocuments(batch)
\* embeds the batch and adds it to the index in memory
HnswAddBatch(s) ==
  /\ kind = "hnsw" /\ call[s].pc = "embed"
  /\ vectorstore' = [vectorstore EXCEPT ![s] =
       Loaded(vectorstore[s].docs
              \o Records(Slice(call[s].docs, call[s].i, call[s].batchSize)))]
  /\ call' = [call EXCEPT ![s] = Embedded(call[s])]
  /\ last' = Step(s)
  /\ UNCHANGED <<kind, disk, tableName, db, table, life, deleted>>

HnswAddBatchFails(s) ==
  /\ kind = "hnsw" /\ call[s].pc = "embed"
  /\ call' = [call EXCEPT ![s] = IdleCall]
  /\ last' = Returned(s, EmbedFailed(call[s]), "error", life[s])
  /\ UNCHANGED <<kind, disk, tableName, db, table, vectorstore, life, deleted>>

\* HNSWLibStore.save, called at line 363
HnswSave(s) ==
  /\ kind = "hnsw" /\ call[s].pc = "write"
  /\ disk' = IF vectorstore[s].loaded
             THEN [disk EXCEPT ![tableName[s]] = Present(vectorstore[s].docs)]
             ELSE disk
  /\ call' = [call EXCEPT ![s] = IdleCall]
  /\ deleted' = [deleted EXCEPT ![s] = FALSE]
  /\ last' = Returned(s, call[s], "ok", life[s])
  /\ UNCHANGED <<kind, tableName, db, table, vectorstore, life>>

----------------------------------------------------------------------------
(* search, getCollectionStats, deleteCollection *)

Queries == Texts
KArgs == {Omitted} \cup (0..MaxK)

\* search and searchWithScores run the same query; the second also returns
\* the distances
Search(s, op, q, k, embedOk) ==
  LET out == SearchOutcome(s, q, k, embedOk)
  IN
  /\ Idle(s)
  /\ last' = [NoOp EXCEPT !.op = op, !.s = s, !.result = out.result,
                          !.embedded = out.embedded, !.k = k,
                          !.rows = out.rows, !.before = life[s]]
  /\ UNCHANGED <<kind, disk, tableName, db, table, vectorstore, call, life, deleted>>

GetCollectionStats(s) ==
  /\ Idle(s)
  /\ last' = [NoOp EXCEPT !.op = "getCollectionStats", !.s = s,
                          !.result = getCollectionStats(s).result,
                          !.count = getCollectionStats(s).documentCount,
                          !.before = life[s]]
  /\ UNCHANGED <<kind, disk, tableName, db, table, vectorstore, call, life, deleted>>

\* db.dropTable(name) of line 224 throws when the directory has no such table
DropTableFails(s) == ~TableExists(s)

\* what the caller of deleteCollection on handle s gets
Deleted(s, res) ==
  [NoOp EXCEPT !.op = "deleteCollection", !.s = s, !.result = res,
               !.startDisk = disk[tableName[s]], !.before = life[s]]

\* LanceDeleteCollection without the this.table = null of line 225
LanceDeleteCollectionKeepsTable(s) ==
  /\ kind = "lance" /\ Idle(s)
  /\ IF db[s]
     THEN IF DropTableFails(s)
          THEN /\ last' = Deleted(s, "error")
               /\ UNCHANGED <<disk, life, deleted>>
          ELSE /\ disk' = [disk EXCEPT ![tableName[s]] = NoTable]
               /\ life' = [life EXCEPT ![s] = "deleted"]
               /\ deleted' = [deleted EXCEPT ![s] = TRUE]
               /\ last' = Deleted(s, "ok")
     ELSE /\ life' = [life EXCEPT ![s] = "deleted"]
          /\ deleted' = [deleted EXCEPT ![s] = TRUE]
          /\ last' = Deleted(s, "ok")
          /\ UNCHANGED disk
  /\ UNCHANGED <<kind, tableName, db, table, vectorstore, call>>

\* LanceDBStore.deleteCollection
LanceDeleteCollection(s) ==
  /\ kind = "lance" /\ Idle(s)
  /\ IF db[s]
     THEN IF DropTableFails(s)
          THEN /\ last' = Deleted(s, "error")
               /\ UNCHANGED <<disk, table, life, deleted>>
          ELSE /\ disk' = [disk EXCEPT ![tableName[s]] = NoTable]
               /\ table' = [table EXCEPT ![s] = FALSE]
               /\ life' = [life EXCEPT ![s] = "deleted"]
               /\ deleted' = [deleted EXCEPT ![s] = TRUE]
               /\ last' = Deleted(s, "ok")
     ELSE /\ life' = [life EXCEPT ![s] = "deleted"]
          /\ deleted' = [deleted EXCEPT ![s] = TRUE]
          /\ last' = Deleted(s, "ok")
          /\ UNCHANGED <<disk, table>>
  /\ UNCHANGED <<kind, tableName, db, vectorstore, call>>

\* HnswDeleteCollection removing the persist directory itself
HnswDeleteCollectionRoot(s) ==
  /\ kind = "hnsw" /\ Idle(s)
  /\ disk' = [n \in DOMAIN disk |-> NoTable]
  /\ vectorstore' = [vectorstore EXCEPT ![s] = Null]
  /\ life' = [life EXCEPT ![s] = "deleted"]
  /\ deleted' = [deleted EXCEPT ![s] = TRUE]
  /\ last' = Deleted(s, "ok")
  /\ UNCHANGED <<kind, tableName, db, table, call>>

\* HNSWLibStore.deleteCollection
HnswDeleteCollection(s) ==
  /\ kind = "hnsw" /\ Idle(s)
  /\ disk' = [disk EXCEPT ![tableName[s]] = NoTable]
  /\ vectorstore' = [vectorstore EXCEPT ![s] = Null]
  /\ life' = [life EXCEPT ![s] = "deleted"]
  /\ deleted' = [deleted EXCEPT ![s] = TRUE]
  /\ last' = Deleted(s, "ok")
  /\ UNCHANGED <<kind, tableName, db, table, call>>

----
(* The store used by one caller that awaits every call *)

Next ==
  \/ \E s \in DOMAIN db : Construct(s) /\ UNCHANGED layerVars
  \/ \E s \in DOMAIN db : LanceInitialize(s) /\ UNCHANGED layerVars
  \/ \E s \in DOMAIN db : HnswInitialize(s) /\ UNCHANGED layerVars
  \/ \E s \in DOMAIN db, docs \in DocLists, b \in 1..MaxBatch :
       LanceAddDocuments(s, docs, b) /\ UNCHANGED layerVars
  \/ \E s \in DOMAIN db : LanceEmbedBatch(s) /\ UNCHANGED layerVars
  \/ \E s \in DOMAIN db : LanceEmbedFails(s) /\ UNCHANGED layerVars
  \/ \E s \in DOMAIN db : LanceWrite(s) /\ UNCHANGED layerVars
  \/ \E s \in DOMAIN db, docs \in DocLists, b \in 1..MaxBatch :
       HnswAddDocuments(s, docs, b) /\ UNCHANGED layerVars
  \/ \E s \in DOMAIN db : HnswFromDocuments(s) /\ UNCHANGED layerVars
  \/ \E s \in DOMAIN db : HnswFromDocumentsFails(s) /\ UNCHANGED layerVars
  \/ \E s \in DOMAIN db : HnswAddBatch(s) /\ UNCHANGED layerVars
  \/ \E s \in DOMAIN db : HnswAddBatchFails(s) /\ UNCHANGED layerVars
  \/ \E s \in DOMAIN db : HnswSave(s) /\ UNCHANGED layerVars
  \/ \E s \in DOMAIN db, op \in {"search", "searchWithScores"}, q \in Queries,
        k \in KArgs, embedOk \in BOOLEAN : Search(s, op, q, k, embedOk) /\ UNCHANGED layerVars
  \/ \E s \in DOMAIN db : GetCollectionStats(s) /\ UNCHANGED layerVars
  \/ \E s \in DOMAIN db : LanceDeleteCollection(s) /\ UNCHANGED layerVars
  \/ \E s \in DOMAIN db : HnswDeleteCollection(s) /\ UNCHANGED layerVars

Spec == Init /\ [][Next]_vars

----------------------------------------------------------------------------
(* Two handles of one process on the same collection *)

Handles2 == {1, 2}

InitTwo == InitWith(Handles2, Names1)

\* one document per addDocuments call
SingleDocLists == [1..1 -> DocPool]

\* room left for one more row, on disk and in the index of handle s
RoomTwo(s) ==
  /\ Len(disk[tableName[s]].rows) < MaxRowsTwo
  /\ Len(vectorstore[s].docs) < MaxRowsTwo

NextTwo ==
  \/ \E s \in DOMAIN db : LanceInitialize(s) /\ UNCHANGED layerVars
  \/ \E s \in DOMAIN db : HnswInitialize(s) /\ UNCHANGED layerVars
  \/ \E s \in DOMAIN db, docs \in SingleDocLists :
       RoomTwo(s) /\ LanceAddDocuments(s, docs, 1) /\ UNCHANGED layerVars
  \/ \E s \in DOMAIN db : LanceEmbedBatch(s) /\ UNCHANGED layerVars
  \/ \E s \in DOMAIN db : LanceEmbedFails(s) /\ UNCHANGED layerVars
  \/ \E s \in DOMAIN db : LanceWrite(s) /\ UNCHANGED layerVars
  \/ \E s \in DOMAIN db, docs \in SingleDocLists :
       RoomTwo(s) /\ HnswAddDocuments(s, docs, 1) /\ UNCHANGED layerVars
  \/ \E s \in DOMAIN db : HnswFromDocuments(s) /\ UNCHANGED layerVars
  \/ \E s \in DOMAIN db : HnswFromDocumentsFails(s) /\ UNCHANGED layerVars
  \/ \E s \in DOMAIN db : HnswAddBatch(s) /\ UNCHANGED layerVars
  \/ \E s \in DOMAIN db : HnswAddBatchFails(s) /\ UNCHANGED layerVars
  \/ \E s \in DOMAIN db : HnswSave(s) /\ UNCHANGED layerVars
  \/ \E s \in DOMAIN db : GetCollectionStats(s) /\ UNCHANGED layerVars
  \/ \E s \in DOMAIN db : LanceDeleteCollection(s) /\ UNCHANGED layerVars
  \/ \E s \in DOMAIN db : HnswDeleteCollection(s) /\ UNCHANGED layerVars

SpecTwo == InitTwo /\ [][NextTwo]_vars

----------------------------------------------------------------------------
(* Two collections under one persist directory *)

Names2 == {"onenote_collection", "second_collection"}

\* one store object per collection name
InitNames ==
  /\ InitWith(Handles2, Names2)
  /\ tableName[1] = "onenote_collection" /\ tableName[2] = "second_collection"

SpecNames == InitNames /\ [][NextTwo]_vars

----------------------------------------------------------------------------
(* Row ids of LanceDBStore *)

\* generateId, lines 71-73: `doc_${Date.now()}_${random suffix}`, kept as the
\* pair of the clock reading and the suffix.  n ids made one after the other:
\* the clock does not run backwards, the suffix is any value.
NewIds(n) ==
  { q \in [1..n -> (ids.now..MaxClock) \X (0..MaxRnd)] :
      \A i \in 1..(n - 1) : q[i][1] <= q[i + 1][1] }

InitIds ==
  /\ InitStore(Handles1, Names1)
  /\ kind = "lance"
  /\ ids = [now |-> 0, pending |-> [s \in Handles1 |-> <<>>],
            stored |-> [n \in Names1 |-> FormerIds(Len(disk[n].rows))]]
  /\ retriever = [s \in Handles1 |-> NoRetriever]
  /\ qa = NoChain
  /\ loader = NoLoader

\* const records = [] of line 90
IdsAddDocuments(s, docs) ==
  /\ RoomTwo(s)
  /\ LanceAddDocuments(s, docs, 1)
  /\ ids' = [ids EXCEPT !.pending[s] = <<>>]

\* one id per record pushed in lines 102-107
IdsEmbedBatch(s) ==
  /\ LanceEmbedBatch(s)
  /\ \E new \in NewIds(Len(call'[s].records) - Len(call[s].records)) :
       ids' = [ids EXCEPT !.pending[s] = @ \o new,
                          !.now = IF new = <<>> THEN @ ELSE new[Len(new)][1]]

IdsEmbedFails(s) ==
  /\ LanceEmbedFails(s)
  /\ ids' = [ids EXCEPT !.pending[s] = <<>>]

\* createTable(name, records) / table.add(records): the ids go with the rows
IdsWrite(s) ==
  /\ LanceWrite(s)
  /\ ids' = [ids EXCEPT
               !.pending[s] = <<>>,
               !.stored[tableName[s]] =
                  IF last'.result = "error" THEN @
                  ELSE IF table[s] THEN @ \o ids.pending[s]
                  ELSE ids.pending[s]]

IdsDeleteCollection(s) ==
  /\ LanceDeleteCollection(s)
  /\ ids' = [ids EXCEPT !.stored[tableName[s]] =
                          IF disk'[tableName[s]].state = "absent" THEN <<>>
                          ELSE @]

NextIds ==
  \/ \E s \in DOMAIN db :
       LanceInitialize(s) /\ UNCHANGED <<ids, retriever, qa, loader>>
  \/ \E s \in DOMAIN db, docs \in SingleDocLists :
       IdsAddDocuments(s, docs) /\ UNCHANGED <<retriever, qa, loader>>
  \/ \E s \in DOMAIN db : IdsEmbedBatch(s) /\ UNCHANGED <<retriever, qa, loader>>
  \/ \E s \in DOMAIN db : IdsEmbedFails(s) /\ UNCHANGED <<retriever, qa, loader>>
  \/ \E s \in DOMAIN db : IdsWrite(s) /\ UNCHANGED <<retriever, qa, loader>>
  \/ \E s \in DOMAIN db, q \in Queries, k \in KArgs :
       Search(s, "searchWithScores", q, k, TRUE)
       /\ UNCHANGED <<ids, retriever, qa, loader>>
  \/ \E s \in DOMAIN db : IdsDeleteCollection(s) /\ UNCHANGED <<retriever, qa, loader>>

SpecIds == InitIds /\ [][NextIds]_vars

----------------------------------------------------------------------------
(* Retrievers *)

\* LanceDBStore.asRetriever: an object closing over the store and numResults
LanceAsRetriever(s, k) ==
  /\ kind = "lance" /\ Idle(s)
  /\ retriever' = [retriever EXCEPT ![s] =
                     [made |-> TRUE, k |-> NumResults(k), attached |-> TRUE,
                      index |-> Null]]
  /\ last' = [NoOp EXCEPT !.op = "asRetriever", !.s = s, !.k = k,
                          !.before = life[s]]

\* HNSWLibStore.asRetriever: throws without an index, otherwise the retriever
\* of the HNSWLib instance that this.vectorstore refers to now
HnswAsRetriever(s, k) ==
  /\ kind = "hnsw" /\ Idle(s)
  /\ IF ~vectorstore[s].loaded
     THEN /\ retriever' = retriever
          /\ last' = [NoOp EXCEPT !.op = "asRetriever", !.s = s, !.k = k,
                                  !.result = "error", !.before = life[s]]
     ELSE /\ retriever' = [retriever EXCEPT ![s] =
                             [made |-> TRUE, k |-> NumResults(k),
                              attached |-> TRUE, index |-> vectorstore[s]]]
          /\ last' = [NoOp EXCEPT !.op = "asRetriever", !.s = s, !.k = k,
                                  !.before = life[s]]

\* this.vectorstore was assigned (a new instance or null): the retriever keeps
\* the instance it was made from
Detached(s) ==
  retriever' = [retriever EXCEPT ![s].attached =
                  IF retriever[s].index.loaded THEN FALSE ELSE @]

\* the instance this.vectorstore refers to was changed in place: a retriever
\* made from that instance sees the change
Followed(s) ==
  retriever' = [retriever EXCEPT ![s].index =
                  IF retriever[s].index.loaded /\ retriever[s].attached
                  THEN vectorstore'[s] ELSE @]

\* what getRelevantDocuments(q) / invoke(q) of the retriever of s returns
RetrieveOutcome(s, q, embedOk) ==
  LET r == retriever[s]
  IN  IF r.index.loaded
      THEN IF ~embedOk
           THEN [result |-> "error", embedded |-> TRUE, rows |-> <<>>]
           ELSE [result |-> "ok", embedded |-> TRUE,
                 rows |-> VectorSearch(r.index.docs, EmbedVec(q), r.k)]
      ELSE SearchOutcome(s, q, r.k, embedOk)

Retrieve(s, q, embedOk) ==
  LET out == RetrieveOutcome(s, q, embedOk)
  IN
  /\ Idle(s) /\ retriever[s].made
  /\ last' = [NoOp EXCEPT !.op = "retrieve", !.s = s, !.result = out.result,
                          !.embedded = out.embedded, !.k = retriever[s].k,
                          !.rows = out.rows, !.before = life[s]]

storeVars ==
  <<kind, disk, tableName, db, table, vectorstore, call, life, deleted>>

InitRetriever == InitWith(Handles1, Names1)

NextRetriever ==
  \/ \E s \in DOMAIN db :
       LanceInitialize(s) /\ UNCHANGED <<ids, retriever, qa, loader>>
  \/ \E s \in DOMAIN db :
       HnswInitialize(s)
       /\ (IF storeExists(s) THEN Detached(s) ELSE UNCHANGED retriever)
       /\ UNCHANGED <<ids, qa, loader>>
  \/ \E s \in DOMAIN db, docs \in SingleDocLists :
       RoomTwo(s) /\ LanceAddDocuments(s, docs, 1)
       /\ UNCHANGED <<ids, retriever, qa, loader>>
  \/ \E s \in DOMAIN db : LanceEmbedBatch(s) /\ UNCHANGED <<ids, retriever, qa, loader>>
  \/ \E s \in DOMAIN db : LanceEmbedFails(s) /\ UNCHANGED <<ids, retriever, qa, loader>>
  \/ \E s \in DOMAIN db : LanceWrite(s) /\ UNCHANGED <<ids, retriever, qa, loader>>
  \/ \E s \in DOMAIN db, docs \in SingleDocLists :
       RoomTwo(s) /\ HnswAddDocuments(s, docs, 1)
       /\ UNCHANGED <<ids, retriever, qa, loader>>
  \/ \E s \in DOMAIN db :
       HnswFromDocuments(s) /\ Detached(s) /\ UNCHANGED <<ids, qa, loader>>
  \/ \E s \in DOMAIN db :
       HnswFromDocumentsFails(s) /\ UNCHANGED <<ids, retriever, qa, loader>>
  \/ \E s \in DOMAIN db :
       HnswAddBatch(s) /\ Followed(s) /\ UNCHANGED <<ids, qa, loader>>
  \/ \E s \in DOMAIN db :
       HnswAddBatchFails(s) /\ UNCHANGED <<ids, retriever, qa, loader>>
  \/ \E s \in DOMAIN db : HnswSave(s) /\ UNCHANGED <<ids, retriever, qa, loader>>
  \/ \E s \in DOMAIN db : LanceDeleteCollection(s) /\ UNCHANGED <<ids, retriever, qa, loader>>
  \/ \E s \in DOMAIN db :
       HnswDeleteCollection(s) /\ Detached(s) /\ UNCHANGED <<ids, qa, loader>>
  \/ \E s \in DOMAIN db, k \in KArgs :
       LanceAsRetriever(s, k) /\ UNCHANGED storeVars /\ UNCHANGED <<ids, qa, loader>>
  \/ \E s \in DOMAIN db, k \in KArgs :
       HnswAsRetriever(s, k) /\ UNCHANGED storeVars /\ UNCHANGED <<ids, qa, loader>>
  \/ \E s \in DOMAIN db, q \in Queries, embedOk \in BOOLEAN :
       Retrieve(s, q, embedOk) /\ UNCHANGED storeVars
       /\ UNCHANGED <<ids, retriever, qa, loader>>

SpecRetriever == InitRetriever /\ [][NextRetriever]_vars

----------------------------------------------------------------------------
(* QAChain and OneNoteKnowledgeBase.ask *)

\* the preview length of lines 124-125
PreviewLen == 200

\* the '...' appended at line 125
Ellipsis == <<".", ".", ".">>

\* pageContent as characters: text "a" is PreviewLen characters long, every
\* other text one character longer
Chars(t) ==
  IF t = "a" THEN [i \in 1..PreviewLen |-> t]
  ELSE [i \in 1..(PreviewLen + 1) |-> t]

\* the excerpt with the ellipsis appended to the whole content
ExcerptUncut(c) == IF Len(c) > PreviewLen THEN c \o Ellipsis ELSE c

\* lines 123-126: content of one source
Excerpt(c) ==
  IF Len(c) > PreviewLen THEN SubSeq(c, 1, PreviewLen) \o Ellipsis ELSE c

\* lengths of the contents of response.sources
RECURSIVE ExcerptLens(_)
ExcerptLens(rows) ==
  IF rows = <<>> THEN <<>>
  ELSE <<Len(Excerpt(Chars(Head(rows).text)))>> \o ExcerptLens(Tail(rows))

\* the sources in the opposite order
RECURSIVE SourcesReversed(_)
SourcesReversed(rows) ==
  IF rows = <<>> THEN <<>>
  ELSE SourcesReversed(Tail(rows))
       \o <<[content |-> Excerpt(Chars(Head(rows).text)),
              metadata |-> Head(rows).metadata]>>

\* lines 120-128: sourceDocuments.map(doc => ({content, metadata}))
RECURSIVE Sources(_)
Sources(rows) ==
  IF rows = <<>> THEN <<>>
  ELSE <<[content |-> Excerpt(Chars(Head(rows).text)),
          metadata |-> Head(rows).metadata]>>
       \o Sources(Tail(rows))

LlmTypes == {"openai", "ollama"}
Templates == {"default", "custom"}

\* createLLM with the 'ollama' branch returning a model
createLLMAllowsOllama(llmType, apiKey) ==
  IF llmType = "openai"
  THEN IF ~apiKey THEN "throws" ELSE "openai"
  ELSE "ollama"

\* createLLM, lines 56-84: the model binding, or "throws"
createLLM(llmType, apiKey) ==
  IF llmType = "openai"
  THEN IF ~apiKey THEN "throws" ELSE "openai"
  ELSE "throws"

\* new QAChain(vectorstore, llmType, modelName, temperature, promptTemplate),
\* lines 41-51; template is "custom" when promptTemplate is given.  The
\* caller keeps the object only when the constructor returns (line 220).
NewQAChain(llmType, apiKey, template) ==
  /\ ~qa.made
  /\ qa' = IF createLLM(llmType, apiKey) = "throws" THEN qa
           ELSE [made |-> TRUE, llm |-> createLLM(llmType, apiKey),
                 template |-> template, chain |-> FALSE, prompt |-> "none"]
  /\ last' = [NoOp EXCEPT !.op = "newQAChain", !.llmType = llmType,
                          !.apiKey = apiKey,
                          !.result = IF createLLM(llmType, apiKey) = "throws"
                                     THEN "error" ELSE "ok"]

\* the prompt of the chain RetrievalQAChain.fromLLM(llm, retriever, options)
\* builds: options.prompt when given, the library's own QA prompt otherwise
FromLLMPrompt(optionsPrompt) ==
  IF optionsPrompt = "none" THEN "library" ELSE optionsPrompt

\* the retriever this.vectorstore.asRetriever() of line 90 returns
Bound(s) ==
  [made |-> TRUE, k |-> NumResults(Omitted), attached |-> TRUE,
   index |-> vectorstore[s]]

\* QAChain.initialize setting this.chain = null before it asks for the
\* retriever
QAInitializeResets(s) ==
  /\ kind = "hnsw" /\ Idle(s) /\ qa.made
  /\ IF ~vectorstore[s].loaded
     THEN /\ qa' = [qa EXCEPT !.chain = FALSE]
          /\ retriever' = retriever
          /\ last' = [NoOp EXCEPT !.op = "qaInitialize", !.s = s,
                                  !.result = "error", !.wasReady = qa.chain]
     ELSE /\ qa' = [qa EXCEPT !.chain = TRUE, !.prompt = FromLLMPrompt("none")]
          /\ retriever' = [retriever EXCEPT ![s] = Bound(s)]
          /\ last' = [NoOp EXCEPT !.op = "qaInitialize", !.s = s,
                                  !.wasReady = qa.chain]

\* QAChain.initialize, lines 89-96: asRetriever throws when the store holds no
\* index; the options of fromLLM carry no prompt
QAInitialize(s) ==
  /\ kind = "hnsw" /\ Idle(s) /\ qa.made
  /\ IF ~vectorstore[s].loaded
     THEN /\ UNCHANGED <<qa, retriever>>
          /\ last' = [NoOp EXCEPT !.op = "qaInitialize", !.s = s,
                                  !.result = "error", !.wasReady = qa.chain]
     ELSE /\ qa' = [qa EXCEPT !.chain = TRUE, !.prompt = FromLLMPrompt("none")]
          /\ retriever' = [retriever EXCEPT ![s] = Bound(s)]
          /\ last' = [NoOp EXCEPT !.op = "qaInitialize", !.s = s,
                                  !.wasReady = qa.chain]

\* QAChain.ask, lines 111-132: ensureInitialized, then chain.invoke (the
\* retriever, then the model once), then the sources
Ask(s, q, returnSources, embedOk, llmOk) ==
  LET needInit == ~qa.chain
      r == IF needInit THEN Bound(s) ELSE retriever[s]
      rows == VectorSearch(r.index.docs, EmbedVec(q), r.k)
      Seen == [NoOp EXCEPT !.op = "ask", !.s = s, !.wasReady = qa.chain,
                           !.returnSources = returnSources]
  IN
  /\ kind = "hnsw" /\ Idle(s) /\ qa.made
  /\ IF needInit /\ ~vectorstore[s].loaded
     THEN /\ UNCHANGED <<qa, retriever>>
          /\ last' = [Seen EXCEPT !.result = "error"]
     ELSE /\ qa' = [qa EXCEPT !.chain = TRUE,
                              !.prompt = IF needInit THEN FromLLMPrompt("none")
                                         ELSE @]
          /\ retriever' = [retriever EXCEPT ![s] = r]
          /\ last' =
               IF ~embedOk
               THEN [Seen EXCEPT !.result = "error", !.embedded = TRUE]
               ELSE IF ~llmOk
               THEN [Seen EXCEPT !.result = "error", !.embedded = TRUE,
                                 !.llmCalls = 1, !.prompt = qa'.prompt]
               ELSE [Seen EXCEPT !.embedded = TRUE, !.llmCalls = 1,
                                 !.prompt = qa'.prompt, !.rows = rows,
                                 !.excerpts = IF returnSources
                                              THEN ExcerptLens(rows) ELSE <<>>,
                                 !.hasSources = returnSources,
                                 !.sources = IF returnSources
                                             THEN Sources(rows) ELSE <<>>]

\* OneNoteKnowledgeBase.ask, lines 228-231
KbAsk(s, q, showSources, embedOk, llmOk) ==
  IF ~qa.made
  THEN /\ kind = "hnsw" /\ Idle(s)
       /\ UNCHANGED <<qa, retriever>>
       /\ last' = [NoOp EXCEPT !.op = "kbAsk", !.s = s, !.result = "error"]
  ELSE Ask(s, q, showSources, embedOk, llmOk)

InitQA == InitWith(Handles1, Names1) /\ kind = "hnsw"

NextQA ==
  \/ \E s \in DOMAIN db :
       HnswInitialize(s)
       /\ (IF storeExists(s) THEN Detached(s) ELSE UNCHANGED retriever)
       /\ UNCHANGED <<ids, qa, loader>>
  \/ \E s \in DOMAIN db, docs \in SingleDocLists :
       RoomTwo(s) /\ HnswAddDocuments(s, docs, 1)
       /\ UNCHANGED <<ids, retriever, qa, loader>>
  \/ \E s \in DOMAIN db :
       HnswFromDocuments(s) /\ Detached(s) /\ UNCHANGED <<ids, qa, loader>>
  \/ \E s \in DOMAIN db :
       HnswAddBatch(s) /\ Followed(s) /\ UNCHANGED <<ids, qa, loader>>
  \/ \E s \in DOMAIN db : HnswSave(s) /\ UNCHANGED <<ids, retriever, qa, loader>>
  \/ \E s \in DOMAIN db :
       HnswDeleteCollection(s) /\ Detached(s) /\ UNCHANGED <<ids, qa, loader>>
  \/ \E llmType \in LlmTypes, apiKey \in BOOLEAN, template \in Templates :
       NewQAChain(llmType, apiKey, template)
       /\ UNCHANGED storeVars /\ UNCHANGED <<ids, retriever, loader>>
  \/ \E s \in DOMAIN db :
       QAInitialize(s) /\ UNCHANGED storeVars /\ UNCHANGED <<ids, loader>>
  \/ \E s \in DOMAIN db, q \in Queries, src \in BOOLEAN, embedOk \in BOOLEAN,
        llmOk \in BOOLEAN :
       KbAsk(s, q, src, embedOk, llmOk) /\ UNCHANGED storeVars /\ UNCHANGED <<ids, loader>>

SpecQA == InitQA /\ [][NextQA]_vars

----------------------------------------------------------------------------
(* OneNoteLoader *)

\* settings.app.chunkSize and settings.app.chunkOverlap, scaled down from
\* their defaults of 1000 and 200
ChunkSizeDefault == 3
ChunkOverlapDefault == 1

\* what the Graph API lists: notebook "A" with sections "S" and "s", and a
\* second notebook (nb2 is its displayName || '') with section "S"; every
\* section has MaxPages pages
Notebooks(nb2) ==
  << [name |-> "A", sections |-> <<"S", "s">>],
     [name |-> nb2, sections |-> <<"S">>] >>

\* length of the text of the k-th page of a section
PageText(k) == k + 1

\* the notebookName / sectionName argument: left out, or a string
NoFilter == [given |-> FALSE, name |-> ""]
Filter(n) == [given |-> TRUE, name |-> n]

\* `notebookName && nbName !== notebookName` of lines 219 and 231, negated
Passes(filter, name) ==
  ~((filter.given /\ filter.name # "") /\ name # filter.name)

\* chunkSize || settings.app.chunkSize
UsedChunkSize(arg) ==
  IF arg = Omitted \/ arg = 0 THEN ChunkSizeDefault ELSE arg

\* chunkOverlap || settings.app.chunkOverlap
UsedChunkOverlap(arg) ==
  IF arg = Omitted \/ arg = 0 THEN ChunkOverlapDefault ELSE arg

\* RecursiveCharacterTextSplitter on a text without separators: pieces of
\* size characters, each starting size - overlap after the one before
RECURSIVE SplitFrom(_, _, _, _)
SplitFrom(start, len, size, overlap) ==
  IF len = 0 THEN <<>>
  ELSE IF start + size >= len
  THEN <<[start |-> start, len |-> len - start]>>
  ELSE <<[start |-> start, len |-> size]>>
       \o SplitFrom(start + size - overlap, len, size, overlap)

\* pageToDocument, lines 190-204, and the documents load() pushes for it
PageDocuments(l, id) ==
  LET whole == [start |-> 0, len |-> PageText(id[3])]
      parts == IF l.split
               THEN SplitFrom(0, PageText(id[3]), l.chunkSize, l.chunkOverlap)
               ELSE <<whole>>
  IN  [n \in 1..Len(parts) |->
         [pageId |-> id, notebook |-> l.notebooks[id[1]].name,
          section |-> l.notebooks[id[1]].sections[id[2]],
          start |-> parts[n].start, len |-> parts[n].len]]

\* new OneNoteLoader(authenticator, chunkSize, chunkOverlap), lines 52-63;
\* the splitter's constructor throws when chunkOverlap >= chunkSize
NewLoader(argSize, argOverlap) ==
  /\ loader.pc = "none"
  /\ loader' = [loader EXCEPT
                  !.argSize = argSize, !.argOverlap = argOverlap,
                  !.chunkSize = UsedChunkSize(argSize),
                  !.chunkOverlap = UsedChunkOverlap(argOverlap),
                  !.pc = IF UsedChunkOverlap(argOverlap) >= UsedChunkSize(argSize)
                         THEN "thrown" ELSE "ready"]

\* load(notebookName, sectionName, splitDocuments) up to the loop of line 215
LoadStart(nbFilter, secFilter, split) ==
  /\ loader.pc = "ready"
  /\ loader' = [loader EXCEPT !.pc = "notebooks", !.nbFilter = nbFilter,
                              !.secFilter = secFilter, !.split = split,
                              !.i = 1]

\* the listing that load() is waiting for: listNotebooks (line 213),
\* listSections (line 225) or listPages (line 237)
Listing(l) ==
  IF l.pc = "ready" THEN "notebooks"
  ELSE IF l.pc = "sections" /\ l.j = 1 THEN "sections"
  ELSE IF l.pc = "pages" /\ l.k = 0 THEN "pages"
  ELSE "none"

\* ListFails with the failed listing taken as an empty list
ListFailsSkipped ==
  /\ Listing(loader) # "none"
  /\ loader' =
       [loader EXCEPT !.listError = Listing(loader),
                      !.pc = IF Listing(loader) = "notebooks" THEN "done"
                             ELSE IF Listing(loader) = "sections" THEN "notebooks"
                             ELSE "sections",
                      !.i = IF Listing(loader) = "sections" THEN @ + 1 ELSE @,
                      !.j = IF Listing(loader) = "pages" THEN @ + 1 ELSE @]

\* listNotebooks, listSections or listPages throws (request, lines 68-80):
\* nothing catches it, load() rejects and its documents are dropped
ListFails ==
  /\ Listing(loader) # "none"
  /\ loader' = [loader EXCEPT !.pc = "failed", !.documents = <<>>,
                              !.listError = Listing(loader)]

\* one turn of the loop of lines 215-225, or its end (line 276)
StepNotebook ==
  LET l == loader
  IN
  /\ l.pc = "notebooks"
  /\ loader' =
       IF l.i > Len(l.notebooks) THEN [l EXCEPT !.pc = "done"]
       ELSE IF ~Passes(l.nbFilter, l.notebooks[l.i].name)
       THEN [l EXCEPT !.i = l.i + 1]
       ELSE [l EXCEPT !.pc = "sections", !.j = 1]

\* one turn of the loop of lines 227-237: listPages waits to be answered
StepSection ==
  LET l == loader
      secs == l.notebooks[l.i].sections
  IN
  /\ l.pc = "sections"
  /\ loader' =
       IF l.j > Len(secs) THEN [l EXCEPT !.pc = "notebooks", !.i = l.i + 1]
       ELSE IF ~Passes(l.secFilter, secs[l.j])
       THEN [l EXCEPT !.j = l.j + 1]
       ELSE [l EXCEPT !.pc = "pages", !.k = 0]

\* listPages answered
PagesListed ==
  LET l == loader
  IN
  /\ l.pc = "pages" /\ l.k = 0
  /\ loader' = [l EXCEPT !.k = 1,
                         !.listed = @ \o [k \in 1..MaxPages |-> <<l.i, l.j, k>>]]

\* lines 240-243 and 265-273: the page loads, is yielded, and load() pushes
\* its documents
PageLoads ==
  LET l == loader
      id == <<l.i, l.j, l.k>>
  IN
  /\ l.pc = "pages" /\ l.k \in 1..MaxPages
  /\ loader' = [l EXCEPT !.yielded = Append(@, id),
                         !.documents = @ \o PageDocuments(l, id),
                         !.k = l.k + 1]

\* PageFails ending the traversal
PageFailsAborts ==
  LET l == loader
  IN
  /\ l.pc = "pages" /\ l.k \in 1..MaxPages
  /\ loader' = [l EXCEPT !.failed = Append(@, <<l.i, l.j, l.k>>),
                         !.pc = "failed", !.documents = <<>>]

\* lines 244-248: loadPage throws (the fetch or htmlToText), the error is
\* written to the console and the loop goes on
PageFails ==
  LET l == loader
  IN
  /\ l.pc = "pages" /\ l.k \in 1..MaxPages
  /\ loader' = [l EXCEPT !.failed = Append(@, <<l.i, l.j, l.k>>),
                         !.k = l.k + 1]

\* the pages of the section are through
PagesDone ==
  /\ loader.pc = "pages" /\ loader.k > MaxPages
  /\ loader' = [loader EXCEPT !.pc = "sections", !.j = loader.j + 1]

FilterArgs(n) == {NoFilter, Filter(""), Filter(n)}

\* batchSize: number = 100, the default of HNSWLibStore.addDocuments
DefaultBatchSize == 100

\* a document of load() as the store takes it; the text of a chunk is known
\* by its page only, odd pages read "a" and even pages "b"
AsDocument(d) ==
  [pageContent |-> IF d.pageId[3] % 2 = 1 THEN "a" ELSE "b",
   metadata |-> [pageId |-> d.pageId, notebook |-> d.notebook,
                 section |-> d.section]]

AsDocuments(ds) == [n \in 1..Len(ds) |-> AsDocument(ds[n])]

\* OneNoteKnowledgeBase.loadFromOneNote up to the call of loader.load, lines
\* 194-200: the knowledge base is new, so it initializes its store, then it
\* constructs a loader without arguments
KbLoadFromOneNote(s) ==
  /\ loader.pc = "none"
  /\ HnswInitialize(s)
  /\ loader' = [loader EXCEPT
                  !.argSize = Omitted, !.argOverlap = Omitted,
                  !.chunkSize = UsedChunkSize(Omitted),
                  !.chunkOverlap = UsedChunkOverlap(Omitted),
                  !.pc = "ready", !.kb = TRUE]

\* lines 202-204: load() returned documents, they go to the store
KbAddDocuments(s) ==
  /\ loader.kb /\ loader.pc = "done" /\ loader.documents # <<>>
  /\ HnswAddDocuments(s, AsDocuments(loader.documents), DefaultBatchSize)
  /\ loader' = [loader EXCEPT !.pc = "handed"]

\* lines 205-207: load() returned no document, nothing is added
KbNothingFound(s) ==
  /\ loader.kb /\ loader.pc = "done" /\ loader.documents = <<>>
  /\ last' = [NoOp EXCEPT !.op = "loadFromOneNote", !.s = s]
  /\ loader' = [loader EXCEPT !.pc = "handed"]
  /\ UNCHANGED storeVars

\* line 200: load() rejected, and so does loadFromOneNote
KbLoadRejects(s) ==
  /\ loader.kb /\ loader.pc = "failed"
  /\ last' = [NoOp EXCEPT !.op = "loadFromOneNote", !.s = s, !.result = "error"]
  /\ loader' = [loader EXCEPT !.pc = "rejected"]
  /\ UNCHANGED storeVars

InitLoader ==
  /\ InitStore(Handles1, Names1)
  /\ kind = "hnsw" /\ disk = [n \in Names1 |-> NoTable]
  /\ ids = NoIds(Handles1, Names1)
  /\ retriever = [s \in Handles1 |-> NoRetriever]
  /\ qa = NoChain
  /\ \E nb2 \in {"a", ""} : loader = [NoLoader EXCEPT !.notebooks = Notebooks(nb2)]

otherVars == <<storeVars, last, ids, retriever, qa>>

NextLoader ==
  \/ \E argSize \in {Omitted} \cup (1..MaxChunk),
        argOverlap \in {Omitted} \cup (0..(MaxChunk - 1)) :
       NewLoader(argSize, argOverlap) /\ UNCHANGED otherVars
  \/ \E nbFilter \in FilterArgs("A"), secFilter \in FilterArgs("S"),
        split \in BOOLEAN :
       (loader.kb => split) /\ LoadStart(nbFilter, secFilter, split)
       /\ UNCHANGED otherVars
  \/ ListFails /\ UNCHANGED otherVars
  \/ StepNotebook /\ UNCHANGED otherVars
  \/ StepSection /\ UNCHANGED otherVars
  \/ PagesListed /\ UNCHANGED otherVars
  \/ PageLoads /\ UNCHANGED otherVars
  \/ PageFails /\ UNCHANGED otherVars
  \/ PagesDone /\ UNCHANGED otherVars
  \/ \E s \in DOMAIN db : KbLoadFromOneNote(s) /\ UNCHANGED <<ids, retriever, qa>>
  \/ \E s \in DOMAIN db : KbAddDocuments(s) /\ UNCHANGED <<ids, retriever, qa>>
  \/ \E s \in DOMAIN db : KbNothingFound(s) /\ UNCHANGED <<ids, retriever, qa>>
  \/ \E s \in DOMAIN db : KbLoadRejects(s) /\ UNCHANGED <<ids, retriever, qa>>
  \/ \E s \in DOMAIN db : HnswFromDocuments(s) /\ UNCHANGED layerVars
  \/ \E s \in DOMAIN db : HnswFromDocumentsFails(s) /\ UNCHANGED layerVars
  \/ \E s \in DOMAIN db : HnswSave(s) /\ UNCHANGED layerVars

SpecLoader == InitLoader /\ [][NextLoader]_vars

----------------------------------------------------------------------------
(* Properties of addDocuments *)

Ceil(n, b) == (n + b - 1) \div b

\* the texts of the j-th of the batches the loop is to send for docs
ExpectedBatch(docs, b, j) ==
  [x \in 1..(Min(j * b, Len(docs)) - (j - 1) * b) |->
     docs[(j - 1) * b + x].pageContent]

ExpectedBatches(docs, b) ==
  [j \in 1..Ceil(Len(docs), b) |-> ExpectedBatch(docs, b, j)]

IsPrefix(p, q) == Len(p) <= Len(q) /\ \A x \in 1..Len(p) : p[x] = q[x]

\* the rows of the documents of the first j batches
BatchPrefixRows(docs, b, j) ==
  [x \in 1..Min(j * b, Len(docs)) |->
     [text |-> docs[x].pageContent, vector |-> EmbedVec(docs[x].pageContent),
      metadata |-> docs[x].metadata]]

AddReturned == last.op = "addDocuments"

\* C1: a successful LanceDBStore.addDocuments of N chunks on a collection of
\* R rows (R = 0 when there is none) leaves R + N rows whatever the batch
\* size, and getCollectionStats reports them; nothing is deduplicated.
C1_RowCount ==
  (kind = "lance" /\ AddReturned /\ last.result = "ok") =>
    LET s == last.s
        total == Len(last.startDisk.rows) + Len(last.docs)
    IN  /\ Len(disk[tableName[s]].rows) = total
        /\ last.docs # <<>> =>
             getCollectionStats(s) = [result |-> "ok", documentCount |-> total]

\* the same two chunks added a second time, one per batch
C1_Witness ==
  /\ kind = "lance" /\ AddReturned /\ last.result = "ok"
  /\ Len(last.docs) = 2 /\ last.batchSize = 1
  /\ last.startDisk.rows = BatchPrefixRows(last.docs, 1, 2)
  /\ Len(disk[tableName[last.s]].rows) = 4

\* C2: LanceDBStore.addDocuments of N > 0 chunks calls embedDocuments
\* ceil(N/B) times, in input order and one call after the other; every call
\* but the last carries B texts, the last the remaining ones; the progress
\* count logged after each call never decreases.
C2_BatchCalls ==
  kind = "lance" =>
    /\ \A s \in DOMAIN db :
         call[s].pc # "idle" =>
           /\ IsPrefix(call[s].embedCalls,
                       ExpectedBatches(call[s].docs, call[s].batchSize))
           /\ Len(call[s].embedCalls) = Len(call[s].progress)
           /\ \A x \in 1..Len(call[s].progress) :
                /\ call[s].progress[x] = Min(x * call[s].batchSize, Len(call[s].docs))
                /\ x > 1 => call[s].progress[x - 1] <= call[s].progress[x]
    /\ (AddReturned /\ last.docs # <<>>) =>
         LET n == Len(last.docs)
             b == last.batchSize
             m == Ceil(n, b)
         IN  /\ IsPrefix(last.embedCalls, ExpectedBatches(last.docs, b))
             /\ \A x \in 2..Len(last.progress) :
                  last.progress[x - 1] <= last.progress[x]
             /\ last.result = "ok" =>
                  /\ Len(last.embedCalls) = m
                  /\ \A j \in 1..(m - 1) : Len(last.embedCalls[j]) = b
                  /\ Len(last.embedCalls[m]) = n - b * (m - 1)
                  /\ last.embedCalls = ExpectedBatches(last.docs, b)

\* three chunks in batches of two: calls of 2 and 1 texts
C2_Witness ==
  /\ kind = "lance" /\ AddReturned /\ last.result = "ok"
  /\ Len(last.docs) = 3 /\ last.batchSize = 2
  /\ Len(last.embedCalls) = 2
  /\ Len(last.embedCalls[1]) = 2 /\ Len(last.embedCalls[2]) = 1

C4_NoPartialBatch ==
  (AddReturned /\ last.embedError) =>
    /\ last.result = "error"
    /\ LET persisted == disk[tableName[last.s]].rows
           base == IF kind = "lance" THEN last.startDisk.rows
                   ELSE last.startIndex.docs
       IN  \/ persisted = last.startDisk.rows
           \/ \E j \in 0..(Len(last.embedCalls) - 1) :
                persisted = base \o BatchPrefixRows(last.docs, last.batchSize, j)

\* the failing batch has two texts
C4_Witness ==
  /\ AddReturned /\ last.embedError /\ last.result = "error"
  /\ Len(last.embedCalls[Len(last.embedCalls)]) >= 2

----------------------------------------------------------------------------
(* Properties of search, deleteCollection and initialize *)

\* C5: search and searchWithScores on a handle that has no collection (just
\* constructed, initialized on an empty directory, or after deleteCollection)
\* throw before the embedding provider is called.
C5_SearchNeedsCollection ==
  \A s \in DOMAIN db :
    (Idle(s) /\ life[s] \in {"new", "initEmpty", "deleted"}) =>
      \A q \in Queries, k \in KArgs, embedOk \in BOOLEAN :
        SearchOutcome(s, q, k, embedOk)
          = [result |-> "error", embedded |-> FALSE, rows |-> <<>>]

C5_Witness ==
  /\ last.op = "searchWithScores" /\ last.before = "deleted"
  /\ last.result = "error" /\ ~last.embedded

\* C6: addDocuments of an empty list returns normally and leaves the handle
\* and the directory as they were: no embedding call, no connection, no
\* collection, the same isReady().
C6_EmptyAddNoEffect ==
  [][(last'.op = "addDocuments" /\ last'.docs = <<>>) =>
       /\ last'.result = "ok"
       /\ last'.embedCalls = <<>>
       /\ UNCHANGED <<disk, db, table, vectorstore, call, life>>]_vars

\* an empty add on a handle that never connected, the table being on disk
C6_Witness ==
  /\ kind = "lance" /\ AddReturned /\ last.docs = <<>>
  /\ ~db[last.s] /\ ~isReady(last.s)
  /\ disk[tableName[last.s]].state = "present"

\* C7: from the return of deleteCollection to the next successful
\* addDocuments, getCollectionStats reports 0 documents, isReady is false and
\* search throws.
C7_AfterDelete ==
  \A s \in DOMAIN db :
    (deleted[s] /\ Idle(s)) =>
      /\ getCollectionStats(s) = [result |-> "ok", documentCount |-> 0]
      /\ ~isReady(s)
      /\ \A q \in Queries, k \in KArgs, embedOk \in BOOLEAN :
           SearchOutcome(s, q, k, embedOk).result = "error"

\* C8: once deleteCollection has returned, whatever the handle had done
\* before, the directory holds no collection a new handle could open.
C8_DeleteDrops ==
  (last.op = "deleteCollection" /\ last.result = "ok") =>
    disk[tableName[last.s]].state = "absent"

\* C9: deleteCollection on an absent collection returns normally and leaves
\* the store not ready.
C9_DeleteIdempotent ==
  (last.op = "deleteCollection" /\ last.startDisk.state = "absent") =>
    /\ last.result = "ok"
    /\ ~isReady(last.s)

\* C10: initialize never changes the persisted rows, and a second initialize
\* right after a first leaves isReady() and getCollectionStats() as the first
\* left them.
C10_InitializeIdempotent ==
  [][last'.op = "initialize" =>
       /\ disk' = disk
       /\ (last.op = "initialize" /\ last.s = last'.s) =>
            /\ isReady(last.s)' = isReady(last.s)
            /\ getCollectionStats(last.s)' = getCollectionStats(last.s)]_vars

\* initialize on a handle that had already opened the collection
C10_Witness ==
  /\ last.op = "initialize" /\ last.before = "opened"
  /\ isReady(last.s) /\ disk[tableName[last.s]].state = "present"

----------------------------------------------------------------------------
(* Properties of isReady, getCollectionStats and the result size *)

Held(s) == life[s] \in {"opened", "created"}

\* C11: between calls, isReady() is true exactly when the handle has opened
\* the collection in initialize or created it in addDocuments and has not
\* deleted it since; a ready handle has its collection in the directory.
C11_ReadyIffHeld ==
  \A s \in DOMAIN db :
    Idle(s) =>
      /\ isReady(s) <=> Held(s)
      /\ isReady(s) => disk[tableName[s]].state = "present"

\* not ready again after a deleteCollection that failed on an absent table
C11_Witness ==
  /\ last.op = "deleteCollection" /\ last.result = "error"
  /\ last.before = "deleted" /\ ~isReady(last.s)

\* C13, as stated: HNSWLibStore.getCollectionStats reports the number of
\* stored chunks, 0 when no collection is loaded.
C13_Original ==
  kind = "hnsw" =>
    \A s \in DOMAIN db :
      getCollectionStats(s).documentCount =
        IF vectorstore[s].loaded THEN Len(vectorstore[s].docs) ELSE 0

\* C13, amended: HNSWLibStore.getCollectionStats reports 0 documents when no
\* collection is loaded and -1 (unknown) once one has been loaded or created,
\* however many chunks it holds.
C13_UnknownCount ==
  (kind = "hnsw" /\ last.op = "getCollectionStats") =>
    /\ last.result = "ok"
    /\ last.count = IF last.before \in {"opened", "created"} THEN -1 ELSE 0

\* statistics asked of a store that holds two chunks
C13_Witness ==
  /\ kind = "hnsw" /\ last.op = "getCollectionStats" /\ last.count = -1
  /\ Len(vectorstore[last.s].docs) = 2

\* C14: a search with an explicit k >= 0 returns at most k results and at
\* most as many as there are rows; the configured width is the limit only
\* when k is left out.
C14_AtMostK ==
  kind = "lance" =>
    \A s \in DOMAIN db, q \in Queries, k \in KArgs :
      LET out == SearchOutcome(s, q, k, TRUE)
          limit == IF k = Omitted THEN RetrievalK ELSE k
      IN  (Idle(s) /\ out.result = "ok") =>
            /\ Len(out.rows) <= limit
            /\ Len(out.rows) <= Len(disk[tableName[s]].rows)

IdRows(n) ==
  [i \in 1..Len(disk[n].rows) |->
     [id |-> ids.stored[n][i], text |-> disk[n].rows[i].text,
      vector |-> disk[n].rows[i].vector]]

\* every row on disk has the id it was written with
IdsTrackRows ==
  \A n \in DOMAIN disk : Len(ids.stored[n]) = Len(disk[n].rows)

Ordered(rows, qv) ==
  \A i, j \in 1..Len(rows) :
    i < j => Dist(rows[i].vector, qv) <= Dist(rows[j].vector, qv)

NoIdTwice(rows) ==
  \A i, j \in 1..Len(rows) : i < j => rows[i].id # rows[j].id

\* the rows, as stored, that searchWithScores(q, k) of a held table returns
SearchedRows(s, q, k) ==
  VectorSearch(IdRows(tableName[s]), EmbedVec(q), NumResults(k))

\* C15: the rows one search returns come nearest first, and no id is among
\* them twice, whatever addDocuments has put into the collection.
C15_OrderedNoIdTwice ==
  \A s \in DOMAIN db, q \in Queries, k \in KArgs :
    (kind = "lance" /\ Idle(s) /\ table[s] /\ TableExists(s)) =>
      /\ Ordered(SearchedRows(s, q, k), EmbedVec(q))
      /\ NoIdTwice(SearchedRows(s, q, k))

\* the ordering half of C15 alone
SearchOrdered ==
  \A s \in DOMAIN db, q \in Queries, k \in KArgs :
    (kind = "lance" /\ Idle(s) /\ table[s] /\ TableExists(s)) =>
      Ordered(SearchedRows(s, q, k), EmbedVec(q))

----------------------------------------------------------------------------
(* Properties of the retriever *)

\* C16: whenever a retriever was made from the store, what it returns for a
\* query is what store.search(query, k) returns in the same state, with the k
\* it was made with; this holds after later adds, deletes and re-creations.
C16_RetrieverIsSearch ==
  \A s \in DOMAIN db, q \in Queries :
    (Idle(s) /\ retriever[s].made) =>
      RetrieveOutcome(s, q, TRUE) = SearchOutcome(s, q, retriever[s].k, TRUE)

\* the same for the retriever of LanceDBStore alone
LanceRetrieverIsSearch == kind = "lance" => C16_RetrieverIsSearch

----------------------------------------------------------------------------
(* Properties of QAChain *)

\* the step ends a call of QAChain.ask or QAChain.initialize
ChainCall == last'.op \in {"ask", "qaInitialize"}

\* C17, as stated: the chain becomes ready at the first ask or initialize(),
\* stays ready from then on, and initialize() on a ready chain keeps it ready
\* and replaces the binding.
C17_Original ==
  [][ /\ (qa.made /\ ChainCall) => qa'.chain
      /\ qa.chain => qa'.chain ]_vars

\* C17, amended: a call of ask or initialize() makes the chain ready exactly
\* when the store holds an index at that moment; without one the call throws
\* and the chain stays as it was.  A ready chain stays ready, and initialize()
\* on a ready chain replaces the binding only when the store holds an index.
C17_ReadyOnceBound ==
  [][ /\ qa.chain => qa'.chain
      /\ (qa.made /\ ChainCall) =>
           /\ qa'.chain <=> (qa.chain \/ vectorstore[last'.s].loaded)
           /\ (~qa'.chain) => (last'.result = "error" /\ retriever' = retriever)
      /\ (qa.chain /\ last'.op = "qaInitialize") =>
           retriever'[last'.s] =
             IF vectorstore[last'.s].loaded THEN Bound(last'.s)
             ELSE retriever[last'.s] ]_vars

\* initialize() returned on a chain that was ready, after the store got a new
\* index: the binding was replaced
C17_Witness ==
  /\ last.op = "qaInitialize" /\ last.wasReady /\ last.result = "ok"
  /\ qa.chain /\ life[last.s] = "created"

\* C18: OneNoteKnowledgeBase.ask before a QAChain exists throws and does
\* nothing else (no retrieval, no model call, no change of state); the
\* constructor throws for 'openai' without an API key and for 'ollama'; and a
\* QAChain that exists has a model binding.
C18_NoAskWithoutModel ==
  [][ /\ (~qa.made /\ last'.op = "kbAsk") =>
           /\ last'.result = "error" /\ ~last'.embedded /\ last'.llmCalls = 0
           /\ UNCHANGED <<storeVars, ids, retriever, qa, loader>>
      /\ (last'.op = "newQAChain"
          /\ (last'.llmType = "ollama" \/ ~last'.apiKey)) =>
           /\ last'.result = "error" /\ qa' = qa
      /\ qa'.made => qa'.llm # "none" ]_vars

\* ask was called with no QAChain made, on a store that holds an index
C18_Witness ==
  /\ last.op = "kbAsk" /\ last.result = "error" /\ ~qa.made
  /\ vectorstore[last.s].loaded

\* C19: the prompt the model gets in an ask is rendered from the template the
\* QAChain was constructed with (the promptTemplate argument or the default
\* one), and the model is called once in an ask that returns.
C19_PromptFromTemplate ==
  (last.op = "ask" /\ last.result = "ok") =>
     /\ last.llmCalls = 1
     /\ last.prompt = qa.template

\* the model is called once in an ask that returns
AskCallsModelOnce ==
  (last.op = "ask" /\ last.result = "ok") => last.llmCalls = 1

\* C20, as stated: every source excerpt of a QA result is at most PreviewLen
\* characters long.
C20_Original ==
  \A i \in 1..Len(last.excerpts) : last.excerpts[i] <= PreviewLen

\* C20, amended: every source excerpt of a QA result is at most PreviewLen
\* characters plus the ellipsis long; there is one excerpt per retrieved
\* chunk, and a chunk of at most PreviewLen characters is given whole.
C20_ExcerptBound ==
  (last.op = "ask" /\ last.excerpts # <<>>) =>
     /\ Len(last.excerpts) = Len(last.rows)
     /\ \A i \in 1..Len(last.excerpts) :
          /\ last.excerpts[i] <= PreviewLen + Len(Ellipsis)
          /\ Len(Chars(last.rows[i].text)) <= PreviewLen =>
               last.excerpts[i] = Len(Chars(last.rows[i].text))

\* an ask returned a source cut to PreviewLen characters and the ellipsis
C20_Witness ==
  /\ last.op = "ask" /\ last.result = "ok"
  /\ \E i \in 1..Len(last.excerpts) :
       /\ last.excerpts[i] = PreviewLen + Len(Ellipsis)
       /\ Len(Chars(last.rows[i].text)) > PreviewLen

\* C21: an ask that returns with includeSources has one source per retrieved
\* chunk, in retrieval order, each with the chunk's metadata and with the
\* chunk's text, whole when it has at most PreviewLen characters and cut to
\* its first PreviewLen characters plus the ellipsis otherwise; without
\* includeSources the result has no sources.
C21_SourcesPerChunk ==
  (last.op = "ask" /\ last.result = "ok") =>
     IF last.returnSources
     THEN /\ last.hasSources
          /\ Len(last.sources) = Len(last.rows)
          /\ \A i \in 1..Len(last.rows) :
               LET c == Chars(last.rows[i].text)
               IN  /\ last.sources[i].metadata = last.rows[i].metadata
                   /\ last.sources[i].content =
                        IF Len(c) <= PreviewLen THEN c
                        ELSE SubSeq(c, 1, PreviewLen) \o Ellipsis
     ELSE ~last.hasSources /\ last.sources = <<>>

\* an ask with includeSources returned two sources, a whole one and a cut one
C21_Witness ==
  /\ last.op = "ask" /\ last.result = "ok" /\ last.returnSources
  /\ Len(last.sources) = 2
  /\ \E i, j \in 1..2 :
       /\ Len(last.sources[i].content) = PreviewLen
       /\ Len(last.sources[j].content) = PreviewLen + Len(Ellipsis)

----------------------------------------------------------------------------
(* Properties of OneNoteLoader *)

\* page ids in source order: notebook, then section, then page
Before(p, q) ==
  \/ p[1] < q[1]
  \/ p[1] = q[1] /\ p[2] < q[2]
  \/ p[1] = q[1] /\ p[2] = q[2] /\ p[3] < q[3]

InSourceOrder(pages) ==
  \A m, n \in 1..Len(pages) : m < n => Before(pages[m], pages[n])

\* the pages of listed that are not in failed, in the order of listed
Without(listed, failed) ==
  LET DidLoad(p) == \A n \in 1..Len(failed) : failed[n] # p
  IN  SelectSeq(listed, DidLoad)

RECURSIVE DocumentsOf(_, _)
DocumentsOf(l, pages) ==
  IF pages = <<>> THEN <<>>
  ELSE PageDocuments(l, Head(pages)) \o DocumentsOf(l, Tail(pages))

\* what a load() that has returned leaves
LoadedExactly(l) ==
  /\ InSourceOrder(l.listed)
  /\ l.yielded = Without(l.listed, l.failed)
  /\ l.documents = DocumentsOf(l, l.yielded)

\* C22: a page that fails to load does not end the traversal, and when load()
\* returns, the pages yielded are the listed pages that loaded, in source
\* order, and the documents are those of exactly these pages.
C22_FailedPagesSkipped ==
  [][ /\ (loader.pc = "pages" /\ loader.k \in 1..MaxPages) =>
           loader'.pc = "pages"
      /\ loader'.pc = "done" => LoadedExactly(loader') ]_vars

\* load() returned after a page failed and a later page loaded
C22_Witness ==
  /\ loader.pc = "done"
  /\ \E m \in 1..Len(loader.failed), n \in 1..Len(loader.yielded) :
       Before(loader.failed[m], loader.yielded[n])

\* the failed pages that appear in what load() returned
SkippedSeen(l) ==
  { p \in {l.failed[n] : n \in 1..Len(l.failed)} :
      \E n \in 1..Len(l.documents) : l.documents[n].pageId = p }

\* C23: when load() returns, its caller can read every skipped page from what
\* it got, so that the skipped pages it sees and the loaded pages add up to
\* the pages listed.
C23_SkippedReported ==
  loader.pc = "done" =>
    Cardinality(SkippedSeen(loader)) + Len(loader.yielded) = Len(loader.listed)

\* the pages of a collection whose filter was given are those of collections
\* of that name
PagesOfNamed(l) ==
  /\ l.nbFilter.given =>
       \A n \in 1..Len(l.yielded) :
         l.notebooks[l.yielded[n][1]].name = l.nbFilter.name
  /\ l.secFilter.given =>
       \A n \in 1..Len(l.yielded) :
         l.notebooks[l.yielded[n][1]].sections[l.yielded[n][2]]
           = l.secFilter.name

\* C24: with a collection filter given, also the empty string, only pages of
\* collections of exactly that display name are yielded; the same for the
\* section filter; without a filter every collection / section is listed.
C24_ExactFilter ==
  /\ PagesOfNamed(loader)
  /\ (loader.pc = "done" /\ ~loader.nbFilter.given /\ ~loader.secFilter.given)
       => Len(loader.listed) = 3 * MaxPages

\* the filters that are not the empty string are exact
NonEmptyFilterExact ==
  /\ (loader.nbFilter.given /\ loader.nbFilter.name # "") =>
       \A n \in 1..Len(loader.yielded) :
         loader.notebooks[loader.yielded[n][1]].name = loader.nbFilter.name
  /\ (loader.secFilter.given /\ loader.secFilter.name # "") =>
       \A n \in 1..Len(loader.yielded) :
         loader.notebooks[loader.yielded[n][1]].sections[loader.yielded[n][2]]
           = loader.secFilter.name

----------------------------------------------------------------------------
(* Two writers *)

IsSuffix(a, b) ==
  /\ Len(a) <= Len(b)
  /\ SubSeq(b, Len(b) - Len(a) + 1, Len(b)) = a

\* C25: an addDocuments call that saw no collection when it started and
\* reports success has its rows at the end of the persisted collection and
\* has overwritten nothing another call persisted in the meantime: when two
\* such calls interleave, the later one fails.
C25_CreationRaceFails ==
  [][ (/\ last'.op = "addDocuments" /\ last'.result = "ok"
       /\ last'.docs # <<>> /\ last'.startDisk.state = "absent") =>
        LET n == tableName[last'.s]
        IN  /\ IsPrefix(disk[n].rows, disk'[n].rows)
            /\ IsSuffix(Records(last'.docs), disk'[n].rows) ]_vars

\* the same for LanceDBStore alone
LanceCreationRaceFails ==
  [][ (/\ kind = "lance"
       /\ last'.op = "addDocuments" /\ last'.result = "ok"
       /\ last'.docs # <<>> /\ last'.startDisk.state = "absent") =>
        LET n == tableName[last'.s]
        IN  /\ IsPrefix(disk[n].rows, disk'[n].rows)
            /\ IsSuffix(Records(last'.docs), disk'[n].rows) ]_vars

----------------------------------------------------------------------------
(* Row ids *)

\* the ids of the rows written by this process: those of a former run carry
\* an earlier clock reading
OwnIds(n) == SelectSeq(ids.stored[n], LAMBDA id : id[1] >= 0)

\* C26: no two rows persisted by the addDocuments calls of this process carry
\* the same id.
C26_IdsUnique ==
  \A n \in DOMAIN disk :
    \A i, j \in 1..Len(OwnIds(n)) : i < j => OwnIds(n)[i] # OwnIds(n)[j]

----------------------------------------------------------------------------
(* Two collections *)

----------------------------------------------------------------------------
(* Chunking parameters *)

\* C28: with a chunk size and an overlap below it passed to the loader's
\* constructor, the loader is constructed, splits with exactly that size and
\* that overlap, and no chunk it produces is longer than that size.
C28_ChunkParamsUsed ==
  (/\ loader.pc # "none"
   /\ loader.argSize # Omitted /\ loader.argOverlap # Omitted
   /\ loader.argOverlap < loader.argSize) =>
     /\ loader.pc # "thrown"
     /\ loader.chunkSize = loader.argSize
     /\ loader.chunkOverlap = loader.argOverlap
     /\ loader.split =>
          \A n \in 1..Len(loader.documents) :
            loader.documents[n].len <= loader.argSize

\* no chunk is longer than the chunk size the splitter was made with
ChunksWithinUsedSize ==
  loader.split =>
    \A n \in 1..Len(loader.documents) :
      loader.documents[n].len <= loader.chunkSize

----------------------------------------------------------------------------
(* Rows and their vectors *)

\* the rows the addDocuments call that just returned has persisted
RowsAdded ==
  LET rows == disk[tableName[last.s]].rows
  IN  SubSeq(rows, Len(rows) - Len(last.docs) + 1, Len(rows))

\* C29: when LanceDBStore.addDocuments returns, the rows it persisted are, in
\* input order across the batches, one per input chunk, each with that
\* chunk's text and metadata and the vector the provider gave for that text.
C29_VectorsPositional ==
  (/\ kind = "lance" /\ last.op = "addDocuments" /\ last.result = "ok"
   /\ last.docs # <<>>) =>
     /\ Len(disk[tableName[last.s]].rows) >= Len(last.docs)
     /\ \A i \in 1..Len(last.docs) :
          /\ RowsAdded[i].text = last.docs[i].pageContent
          /\ RowsAdded[i].metadata = last.docs[i].metadata
          /\ RowsAdded[i].vector = EmbedVec(last.docs[i].pageContent)

\* three chunks with different texts were persisted in batches of two
C29_Witness ==
  /\ kind = "lance" /\ last.op = "addDocuments" /\ last.result = "ok"
  /\ Len(last.docs) = 3 /\ last.batchSize = 2
  /\ last.docs[1].pageContent # last.docs[2].pageContent
  /\ last.docs[2].pageContent # last.docs[3].pageContent

----------------------------------------------------------------------------
(* Batches of HNSWLibStore *)

\* C30: HNSWLibStore.addDocuments of N documents hands all of them to one
\* creation call when no collection is loaded, whatever batchSize is, and
\* adds them in ceil(N/batchSize) batches in input order when one is loaded;
\* the collection is written to disk once, when the call returns, with all
\* the documents added.
C30_HnswBatches ==
  [][ kind = "hnsw" =>
        /\ \A s \in DOMAIN db :
             (~Idle(s) /\ disk' # disk) =>
               (last'.op = "addDocuments" /\ last'.result = "ok" /\ last'.s = s)
        /\ (last'.op = "addDocuments" /\ last'.result = "ok"
            /\ last'.docs # <<>>) =>
             /\ last'.embedCalls =
                  IF last'.startIndex.loaded
                  THEN ExpectedBatches(last'.docs, last'.batchSize)
                  ELSE <<PageContents(last'.docs)>>
             /\ disk'[tableName[last'.s]] =
                  Present(last'.startIndex.docs \o Records(last'.docs)) ]_vars

\* three documents were added to a loaded collection in batches of two
C30_Witness ==
  /\ kind = "hnsw" /\ last.op = "addDocuments" /\ last.result = "ok"
  /\ last.startIndex.loaded
  /\ Len(last.docs) = 3 /\ last.batchSize = 2
  /\ Len(last.embedCalls) = 2

\* three documents were handed to one creation call with a batch size of one
HnswCreatedInOneCall ==
  /\ kind = "hnsw" /\ last.op = "addDocuments" /\ last.result = "ok"
  /\ ~last.startIndex.loaded
  /\ Len(last.docs) = 3 /\ last.batchSize = 1
  /\ Len(last.embedCalls) = 1

----------------------------------------------------------------------------
(* A persisted collection that cannot be loaded *)

\* C31: HNSWLibStore.initialize returns normally when the persisted
\* collection exists but cannot be loaded and leaves the store not ready; an
\* addDocuments of N chunks that starts on such a collection and returns
\* normally has created a collection of exactly those N chunks and saved it
\* over the persisted one, and it fails only when the embedding fails,
\* leaving the directory as it was.
C31_UnloadableReplaced ==
  kind = "hnsw" =>
    /\ (last.op = "initialize" /\ disk[tableName[last.s]] = Corrupt) =>
         /\ last.result = "ok"
         /\ ~isReady(last.s)
    /\ (last.op = "addDocuments" /\ last.startDisk = Corrupt
        /\ last.docs # <<>>) =>
         /\ ~last.startIndex.loaded
         /\ IF last.result = "ok"
            THEN /\ disk[tableName[last.s]] = Present(Records(last.docs))
                 /\ Len(disk[tableName[last.s]].rows) = Len(last.docs)
                 /\ isReady(last.s)
            ELSE /\ last.embedError
                 /\ disk[tableName[last.s]] = Corrupt

\* two chunks were added to a store whose persisted collection had failed
\* to load, and the call returned normally
C31_Witness ==
  /\ kind = "hnsw" /\ last.op = "addDocuments" /\ last.result = "ok"
  /\ last.startDisk = Corrupt /\ Len(last.docs) = 2
  /\ disk[tableName[last.s]].state = "present"

\* initialize has just met a collection it could not load
InitializeMetUnloadable ==
  /\ kind = "hnsw" /\ last.op = "initialize"
  /\ disk[tableName[last.s]] = Corrupt /\ life[last.s] = "loadFailed"

----------------------------------------------------------------------------
(* Listings that fail *)

\* C32: a listing that fails (of the notebooks, of the sections of a
\* notebook, of the pages of a section) ends load() with a failure and
\* without documents, whatever pages were loaded before, and a
\* loadFromOneNote that made the load fails too and leaves its store as it
\* found it; a load that returns has met no failed listing.
C32_ListingFailureEndsLoad ==
  /\ loader.listError # "none" =>
       /\ loader.pc \in {"failed", "rejected"}
       /\ loader.documents = <<>>
       /\ loader.kb =>
            \A s \in DOMAIN db :
              /\ Idle(s)
              /\ vectorstore[s] = Null
              /\ disk[tableName[s]] = NoTable
  /\ loader.pc = "rejected" =>
       /\ loader.listError # "none"
       /\ last.op = "loadFromOneNote" /\ last.result = "error"

\* loadFromOneNote failed on the pages of a section after a page of an
\* earlier section had loaded
C32_Witness ==
  /\ loader.kb /\ loader.pc = "rejected" /\ loader.listError = "pages"
  /\ loader.yielded # <<>>

\* a load failed on the sections of the second notebook after pages of the
\* first had loaded
SectionsListingFailedLate ==
  /\ loader.pc = "failed" /\ loader.listError = "sections"
  /\ loader.yielded # <<>>

\* loadFromOneNote handed the documents of a load to its store, and the
\* store saved them
KbIndexedLoad ==
  /\ loader.kb /\ loader.pc = "handed"
  /\ last.op = "addDocuments" /\ last.result = "ok"
  /\ disk[tableName[last.s]] = Present(Records(AsDocuments(loader.documents)))

====
